---------------------------- MODULE Spec2Model ----------------------------
(***************************************************************************)
(* Model of the ETF dividend scraper: the historical store                 *)
(* (dividend_history_manager.py), the source adapters and the reconciler   *)
(* (scraper_requests.py).                                                  *)
(*                                                                         *)
(* Python values are modelled as tagged records so that values of          *)
(* different Python types can be compared:                                 *)
(*   dates    [t, m, d, y]  t = "text": the str "MM/DD/YYYY" as the        *)
(*                          sources print it; t = "nan": float('nan'),     *)
(*                          what pandas.read_csv yields for an empty or    *)
(*                          'N/A' cell; t = "none": None; t = "empty": ''; *)
(*                          t = "na": the str 'N/A'                        *)
(*   amounts  [t, cents]    t = "str": the str "$0.<cents>"; t = "nan",    *)
(*                          "none", "na" as above; t = "float": a float    *)
(* The timestamps scraped_at, recorded_at and last_updated and the display *)
(* string amount_str are not modelled: no step of the code reads them.     *)
(***************************************************************************)
EXTENDS Integers, Sequences, FiniteSets, TLC

\* ------------------------------------------------------------ bounds
\* number of ingestion runs whose raw history is imported
NumBatches == 4
\* records without an ex-date an instrument may collect in the model
MaxUndated == 2
\* rows of the table a source serves
MaxRows == 2
\* records of the series the statistics are computed on
MaxSeries == 6
\* passes of update_from_csv
MaxPasses == 3

\* ------------------------------------------------------- program constants
\* existing_dividends[:52]
RetentionWindow == 52
\* rows[:15]
HistoryCap == 15
\* amounts[:12]
TrendWindow == 12
\* get_ticker_history(ticker, limit=12)
DefaultLimit == 12

\* ------------------------------------------------------------ values
Text(m, d, y) == [t |-> "text", m |-> m, d |-> d, y |-> y]
NaN == [t |-> "nan", m |-> 0, d |-> 0, y |-> 0]
None == [t |-> "none", m |-> 0, d |-> 0, y |-> 0]
EmptyStr == [t |-> "empty", m |-> 0, d |-> 0, y |-> 0]
NAStr == [t |-> "na", m |-> 0, d |-> 0, y |-> 0]

AmtStr(c) == [t |-> "str", cents |-> c]
AmtNaN == [t |-> "nan", cents |-> 0]
AmtNone == [t |-> "none", cents |-> 0]
AmtNA == [t |-> "na", cents |-> 0]
Float(c) == [t |-> "float", cents |-> c]

\* The k-th distribution date of a weekly payer, as the text the sources
\* print: four dates a month (the 1st, 8th, 15th, 22nd), from January 2024.
WeekDate(k) == Text((k % 48) \div 4 + 1, 1 + 7 * (k % 4), 2024 + k \div 48)
PayDate(k) == Text((k % 48) \div 4 + 1, 3 + 7 * (k % 4), 2024 + k \div 48)

\* The calendar position of a date text: what the text means, not how it
\* is spelled.
CalendarOrdinal(x) == (x.y * 12 + (x.m - 1)) * 31 + (x.d - 1)

Tickers == {"YBTC", "BTCI"}

\* ------------------------------------------------------ Python operators
\* x != y on the values an ex_date can hold: float('nan') differs from
\* everything, itself included.
PyNe(x, y) == x.t = "nan" \/ y.t = "nan" \/ x # y

\* x < y on two strs (code-point order); on "MM/DD/YYYY" texts this is the
\* order of (month, day, year).
StrLess(x, y) ==
    \/ x.m < y.m
    \/ x.m = y.m /\ x.d < y.d
    \/ x.m = y.m /\ x.d = y.d /\ x.y < y.y

\* x < y on sort keys: float('nan') < float('nan') is False.
KeyLess(x, y) == x.t = "text" /\ y.t = "text" /\ StrLess(x, y)

\* list.sort raises TypeError when it compares a str with a float.
SortRaises(s) ==
    \E i \in 1..Len(s) : s[i].ex_date.t # s[1].ex_date.t

\* existing_dividends.sort(key=lambda x: x.get('ex_date', ''), reverse=True):
\* a stable sort, so records whose keys do not compare less keep their order.
SortDesc(s) == SortSeq(s, LAMBDA a, b : KeyLess(b.ex_date, a.ex_date))

\* the slice forgotten
TakeAll(s, n) == s

\* s[:n]
Take(s, n) == SubSeq(s, 1, IF Len(s) < n THEN Len(s) ELSE n)

\* [d for d in s if d.get('ex_date') != ex_date]
RemoveExDate(s, ex_date) == SelectSeq(s, LAMBDA d : PyNe(d.ex_date, ex_date))

\* float(amount.replace('$', '').strip()) if isinstance(amount, str) else
\* float(amount), ValueError and AttributeError giving 0.0.  A str with
\* cents < 0 stands for a text that is no number.
ParseAmount(amount) ==
    IF amount.t = "str" THEN Float(IF amount.cents >= 0 THEN amount.cents ELSE 0)
    ELSE IF amount.t = "na" THEN Float(0)
    ELSE IF amount.t = "nan" THEN AmtNaN
    ELSE Float(amount.cents)

\* float(None) raises TypeError, which the handler does not catch.
ParseRaises(amount) == amount.t = "none"

\* ------------------------------------------------------------- the store
EmptyDb == [etfs |-> [x \in {} |-> 0]]

NewEntry == [name |-> "", frequency |-> "", dividends |-> <<>>]

\* db['etfs'][ticker] after "Initialize ticker if not exists"
EntryOf(d, ticker) ==
    IF ticker \in DOMAIN d.etfs THEN d.etfs[ticker] ELSE NewEntry

Series(d, ticker) ==
    IF ticker \in DOMAIN d.etfs THEN d.etfs[ticker].dividends ELSE <<>>

\* the entry alone: the other instruments dropped
OnlyEntry(d, ticker, entry) == [etfs |-> [x \in {ticker} |-> entry]]

\* the database loaded with db['etfs'][ticker] replaced, as save_db writes it
WithEntry(d, ticker, entry) ==
    [etfs |-> [x \in DOMAIN d.etfs \cup {ticker} |->
                IF x = ticker THEN entry ELSE d.etfs[x]]]

\* add_dividend_record: the database written by save_db, the value returned,
\* whether the call raised (nothing is saved then) and how many records the
\* [:52] slice cut off.
AddDividendRecord(d, ticker, amount, ex_date, pay_date) ==
    LET entry == EntryOf(d, ticker)
        new_record == [amount |-> ParseAmount(amount),
                       ex_date |-> ex_date,
                       pay_date |-> pay_date]
        kept == RemoveExDate(entry.dividends, ex_date)
        appended == Append(kept, new_record)
    IN IF ParseRaises(amount) \/ SortRaises(appended)
       THEN [db |-> d, ret |-> 0, raised |-> TRUE, cut |-> 0]
       ELSE LET sorted == SortDesc(appended)
                stored == Take(sorted, RetentionWindow)
                saved == WithEntry(d, ticker, [entry EXCEPT !.dividends = stored])
            IN [db |-> saved, ret |-> Len(stored), raised |-> FALSE,
                cut |-> Len(sorted) - Len(stored)]

\* the file read as it is, whatever open and json.load make of it
LoadStale(f, d) == d

\* load_db: FileNotFoundError and json.JSONDecodeError give a database
\* without instruments
LoadDb(f, d) == IF f = "ok" THEN d ELSE EmptyDb

\* get_ticker_history on the database loaded
GetTickerHistory(d, ticker, limit) ==
    IF ticker \notin DOMAIN d.etfs THEN <<>>
    ELSE Take(d.etfs[ticker].dividends, limit)

\* get_all_history on the database loaded
GetAllHistory(d) == d.etfs

\* ------------------------------------------------------------ statistics
\* d['amount'] >= 0: zero amounts counted in
NonNegative(a) == a.t = "float" /\ a.cents >= 0

\* d['amount'] > 0; float('nan') > 0 is False
Positive(a) == a.t = "float" /\ a.cents > 0

\* [d['amount'] for d in history if d['amount'] > 0], in cents
PositiveAmounts(history) ==
    LET kept == SelectSeq(history, LAMBDA d : Positive(d.amount))
    IN [i \in 1..Len(kept) |-> kept[i].amount.cents]

RECURSIVE Sum(_)
Sum(a) == IF a = <<>> THEN 0 ELSE Head(a) + Sum(Tail(a))

Min(a) == CHOOSE x \in {a[i] : i \in 1..Len(a)} : \A i \in 1..Len(a) : x <= a[i]

Max(a) == CHOOSE x \in {a[i] : i \in 1..Len(a)} : \A i \in 1..Len(a) : x >= a[i]

\* the first amount against the last, whatever the length
TrendOfEnds(amounts) ==
    IF Len(amounts) < 2 THEN "stable"
    ELSE IF amounts[1] > amounts[Len(amounts)] THEN "increasing"
    ELSE IF amounts[1] < amounts[Len(amounts)] THEN "decreasing"
    ELSE "stable"

\* the comparison turned round
TrendInverted(amounts) ==
    IF Len(amounts) < 4 THEN "stable"
    ELSE IF Sum(Take(amounts, 3)) < Sum(SubSeq(amounts, 4, Len(amounts)))
         THEN "increasing" ELSE "decreasing"

\* _calculate_trend.  An average is kept as the fraction num / den, so that
\* diff_percent > 5 reads (rn * od - on * rd) * 100 > 5 * on * rd.
CalculateTrend(amounts) ==
    IF Len(amounts) < 2 THEN "stable"
    ELSE LET recent == Take(amounts, 3)
             older == SubSeq(amounts, 4, IF Len(amounts) < 6 THEN Len(amounts) ELSE 6)
             rn == Sum(recent)
             rd == Len(recent)
             on == IF Len(amounts) > 3 THEN Sum(older) ELSE rn
             od == IF Len(amounts) > 3 THEN Len(older) ELSE rd
             diff == IF on > 0 THEN (rn * od - on * rd) * 100 ELSE 0
             five == IF on > 0 THEN 5 * on * rd ELSE 5
         IN IF diff > five THEN "increasing"
            ELSE IF diff < -five THEN "decreasing"
            ELSE "stable"

\* return None
NoStats == [none |-> TRUE, count |-> 0, latest |-> 0, sum |-> 0, min |-> 0,
            max |-> 0, total_12m |-> 0, trend |-> ""]

\* get_statistics on the database loaded; average is sum / count
GetStatistics(d, ticker) ==
    LET history == GetTickerHistory(d, ticker, RetentionWindow)
        amounts == PositiveAmounts(history)
    IN IF history = <<>> \/ amounts = <<>> THEN NoStats
       ELSE [none |-> FALSE,
             count |-> Len(amounts),
             latest |-> amounts[1],
             sum |-> Sum(amounts),
             min |-> Min(amounts),
             max |-> Max(amounts),
             total_12m |-> Sum(Take(amounts, TrendWindow)),
             trend |-> CalculateTrend(Take(amounts, TrendWindow))]

\* ------------------------------------------------------------- the state
VARIABLES
    db,     \* the persisted database: output/dividend_history.json
    last,   \* the last add_dividend_record call: its arguments and outcome
    runs,   \* raw history files imported, passes of update_from_csv made
    file,   \* what open(self.db_path) finds: "ok", "missing" or "corrupt"
    read,   \* the last read of the store: the operation and what it returned
    wr,     \* the add_dividend_record calls of two concurrent callers
    rpc,    \* where scrape_all / get_dividend_data stands
    etf,    \* scrape_all: position in self.etfs
    src,    \* get_dividend_data: position in sources
    result, \* get_dividend_data: the merged result
    returned,       \* get_dividend_data: what each source consulted returned
    results,        \* scrape_all: the rows appended so far
    all_historical, \* scrape_all: the historical rows collected so far
    attempts,       \* get_dividend_data: the source calls and sleeps so far
    ad      \* one adapter call: its page, position and result

storeVars == <<db, last, runs, file, read, wr>>
reconVars == <<rpc, etf, src, result, returned, results, all_historical,
               attempts>>
vars == <<db, last, runs, file, read, wr, rpc, etf, src, result, returned,
          results, all_historical, attempts, ad>>

NoCall == [ticker |-> "", amount |-> AmtNone, ex_date |-> None,
           pay_date |-> None, ret |-> 0, raised |-> FALSE, cut |-> 0,
           via |-> "none"]

CallRecord(ticker, amount, ex_date, pay_date, r, via) ==
    [ticker |-> ticker, amount |-> amount, ex_date |-> ex_date,
     pay_date |-> pay_date, ret |-> r.ret, raised |-> r.raised,
     cut |-> r.cut, via |-> via]

\* ------------------------------------------------------ source adapters
\* sources = [self.scrape_stockanalysis, self.scrape_nasdaq]
Sources == <<"stockanalysis", "nasdaq">>

\* self.etfs, in configuration order
Etfs == <<"YBTC", "BTCI">>

\* result = {'amount': None, 'ex_date': None, 'pay_date': None, 'historical': []}
AbsentResult ==
    [amount |-> AmtNone, ex_date |-> None, pay_date |-> None, historical |-> <<>>]

\* bool(v): None and '' are false, every other value here is true
Truthy(v) == v.t \notin {"none", "empty"}

\* What a row of the source's table holds.  "full": amount, ex-date and
\* pay date; "nodate": an amount, the ex-date cell empty (stockanalysis) or
\* the exOrEffDate key missing (nasdaq), no pay date; "skip": no amount
\* (fewer than two cells, no match, 'N/A'); "bad": a nasdaq row whose amount
\* is a number, on which amount.startswith raises AttributeError.
RowKinds(source) ==
    IF source = "nasdaq" THEN {"full", "nodate", "skip", "bad"}
    ELSE {"full", "nodate", "skip"}

\* The triple read from row p (1 is the latest distribution): stockanalysis
\* already lists week 48 and pays $0.10, nasdaq starts at week 47 with $0.08.
RowTriple(source, p, kind) ==
    LET k == IF source = "nasdaq" THEN 48 - p ELSE 49 - p
    IN [amount |-> IF source = "nasdaq" THEN AmtStr(8) ELSE AmtStr(10),
        ex_date |-> IF kind = "full" THEN WeekDate(k)
                    ELSE IF source = "nasdaq" THEN NAStr ELSE EmptyStr,
        pay_date |-> IF kind = "full" THEN PayDate(k) ELSE NAStr]

\* the body of "for i, row in enumerate(rows[:15])" for a row that does not
\* raise: p = i + 1
RowStep(source, res, p, kind) ==
    IF kind = "skip" THEN res
    ELSE LET h == RowTriple(source, p, kind)
             r == [res EXCEPT !.historical = Append(@, h)]
         IN IF p = 1
            THEN [r EXCEPT !.amount = h.amount, !.ex_date = h.ex_date,
                           !.pay_date = h.pay_date]
            ELSE r

\* except Exception as e: print(...), followed by "return result"
ExceptionPropagates(res) == [pc |-> "raised", result |-> res]

OnException(res) == [pc |-> "returned", result |-> res]

\* the rows loop from row p on, and the return that follows it
RECURSIVE ScrapeRows(_, _, _, _)
ScrapeRows(source, rows, p, res) ==
    IF p > Len(rows) THEN [pc |-> "returned", result |-> res]
    ELSE IF rows[p] = "bad" THEN OnException(res)
    ELSE ScrapeRows(source, rows, p + 1, RowStep(source, res, p, rows[p]))

\* What the source serves.  status "neterr": session.get raises (no
\* connection, timeout); "http": status_code != 200; "parse": the body is
\* not what the parser expects (response.json() raises); "notable": no
\* table, no rows; "ok": rows.
Pages(source) ==
    {[status |-> st, rows |-> <<>>] : st \in {"neterr", "http", "parse", "notable"}}
    \cup {[status |-> "ok", rows |-> rows] :
            rows \in UNION {[1..n -> RowKinds(source)] : n \in 0..MaxRows}}

\* scrape_stockanalysis / scrape_nasdaq as one call
Scrape(source, page) ==
    IF page.status \in {"neterr", "parse"} THEN OnException(AbsentResult)
    ELSE IF page.status \in {"http", "notable"}
         THEN [pc |-> "returned", result |-> AbsentResult]
    ELSE ScrapeRows(source, Take(page.rows, HistoryCap), 1, AbsentResult)

\* ------------------------------------------------------------ reconciler
\* if data.get(f) and not result[f]: result[f] = data[f]
LastWins(cur, new) == IF Truthy(new) THEN new ELSE cur

MergeField(cur, new) == IF Truthy(new) /\ ~Truthy(cur) THEN new ELSE cur

\* lines 149-156 of get_dividend_data
Merge(res, data) ==
    [amount |-> MergeField(res.amount, data.amount),
     ex_date |-> MergeField(res.ex_date, data.ex_date),
     pay_date |-> MergeField(res.pay_date, data.pay_date),
     historical |-> IF Len(data.historical) > 0 THEN data.historical
                    ELSE res.historical]

\* if result['amount'] and result['ex_date'] and len(result['historical']) > 0
Complete(res) ==
    Truthy(res.amount) /\ Truthy(res.ex_date) /\ Len(res.historical) > 0

\* the break forgotten
NeverBreak(res) == "sleep"

\* after the merge: break, or time.sleep(1) and on to the next source
AfterMerge(res) == IF Complete(res) THEN "return" ELSE "sleep"

\* the value as it is, None included
AsIs(v, na) == v

\* v or 'N/A'
OrNA(v, na) == IF Truthy(v) THEN v ELSE na

\* the amount alone decides
StatusByAmount(data) ==
    IF Truthy(data.amount) THEN "Success" ELSE "Partial/No data"

\* 'Success' if (dividend_data.get('amount') and dividend_data.get('ex_date'))
\* else 'Partial/No data'
Status(data) ==
    IF Truthy(data.amount) /\ Truthy(data.ex_date)
    THEN "Success" ELSE "Partial/No data"

\* the row scrape_all appends for the instrument
ResultRow(ticker, data) ==
    [ticker |-> ticker,
     amount |-> OrNA(data.amount, AmtNA),
     ex_date |-> OrNA(data.ex_date, NAStr),
     pay_date |-> OrNA(data.pay_date, NAStr),
     status |-> Status(data)]

\* the rows scrape_all adds to all_historical for the instrument
HistoricalRows(ticker, data) ==
    [i \in 1..Len(data.historical) |->
        [ticker |-> ticker,
         amount |-> data.historical[i].amount,
         ex_date |-> data.historical[i].ex_date,
         pay_date |-> data.historical[i].pay_date]]

\* no read of the store yet
NoRead == [op |-> "none", ticker |-> "", seen |-> "ok", history |-> <<>>,
           stats |-> NoStats, etfs |-> EmptyDb.etfs]

\* the callers that may be inside add_dividend_record at the same time
Writers == {1, 2}

NoWrite == [pc |-> "idle", ticker |-> "", amount |-> AmtNone, k |-> 0,
            loaded |-> EmptyDb]

NoAdapterCall == [pc |-> "idle", source |-> "", page |-> [status |-> "ok", rows |-> <<>>],
                  p |-> 0, result |-> AbsentResult]

ReconInit ==
    /\ rpc = "idle"
    /\ etf = 1
    /\ src = 1
    /\ result = AbsentResult
    /\ returned = <<>>
    /\ results = <<>>
    /\ all_historical = <<>>
    /\ attempts = <<>>

Init ==
    /\ db = EmptyDb
    /\ last = NoCall
    /\ runs = 0
    /\ file = "ok"
    /\ read = NoRead
    /\ wr = [w \in Writers |-> NoWrite]
    /\ ReconInit
    /\ ad = NoAdapterCall

\* an entry of attempts: what happened, and for which instrument
Event(ev) == [etf |-> etf, ev |-> ev]

\* scrape_all enters get_dividend_data for the next instrument
ScrapeNext ==
    /\ rpc = "idle"
    /\ etf <= Len(Etfs)
    /\ rpc' = "try"
    /\ src' = 1
    /\ result' = AbsentResult
    /\ returned' = <<>>
    /\ UNCHANGED <<etf, results, all_historical, attempts, storeVars, ad>>

\* one pass of "for source in sources" up to the break or the sleep
TrySource ==
    /\ rpc = "try"
    /\ \E page \in Pages(Sources[src]) :
        LET data == Scrape(Sources[src], page).result
            merged == Merge(result, data)
        IN /\ returned' = Append(returned, data)
           /\ result' = merged
           /\ rpc' = AfterMerge(merged)
    /\ src' = src + 1
    /\ attempts' = Append(attempts, Event("returned"))
    /\ UNCHANGED <<etf, results, all_historical, storeVars, ad>>

\* time.sleep(1), then the next source or the end of the loop
Sleep ==
    /\ rpc = "sleep"
    /\ rpc' = IF src > Len(Sources) THEN "return" ELSE "try"
    /\ attempts' = Append(attempts, Event("sleep"))
    /\ UNCHANGED <<etf, src, result, returned, results, all_historical,
                   storeVars, ad>>

\* get_dividend_data returns; scrape_all appends the row and the historical
\* rows, sleeps and moves to the next instrument
AppendRow ==
    /\ rpc = "return"
    /\ results' = Append(results, ResultRow(Etfs[etf], result))
    /\ all_historical' = all_historical \o HistoricalRows(Etfs[etf], result)
    /\ etf' = etf + 1
    /\ rpc' = "idle"
    /\ UNCHANGED <<src, result, returned, attempts, storeVars, ad>>

\* the loop over self.etfs is over: scrape_all returns results
ScrapeDone ==
    /\ rpc = "idle"
    /\ etf > Len(Etfs)
    /\ rpc' = "done"
    /\ UNCHANGED <<etf, src, result, returned, results, all_historical,
                   attempts, storeVars, ad>>

ReconNext == ScrapeNext \/ TrySource \/ Sleep \/ AppendRow \/ ScrapeDone

SpecRecon == Init /\ [][ReconNext]_vars

\* ------------------------------- the reconciler and a source that raises
\* the exception leaves get_dividend_data and scrape_all
Propagate(s) == "aborted"

\* except Exception as e: print(...); continue -- the next pass of the loop,
\* or its end
OnSourceException(s) == IF s >= Len(Sources) THEN "return" ELSE "try"

\* one pass of "for source in sources" in which source(ticker) raises: the
\* merge, the completeness test and the sleep are skipped
SourceRaises ==
    /\ rpc = "try"
    /\ rpc' = OnSourceException(src)
    /\ src' = src + 1
    /\ attempts' = Append(attempts, Event("raised"))
    /\ UNCHANGED <<etf, result, returned, results, all_historical, storeVars, ad>>

ReconRaiseNext == ReconNext \/ SourceRaises

SpecReconRaise == Init /\ [][ReconRaiseNext]_vars

\* scrape_all runs on as long as it has a step to take
SpecReconLive == Init /\ [][ReconRaiseNext]_vars /\ WF_vars(ReconRaiseNext)

\* ------------------------------------------- one adapter call, row by row
\* session.get and what precedes the rows loop
AdFetch ==
    /\ ad.pc = "idle"
    /\ \E source \in {Sources[i] : i \in 1..Len(Sources)} :
        \E page \in Pages(source) :
            LET out == IF page.status \in {"neterr", "parse"}
                       THEN OnException(AbsentResult)
                       ELSE [pc |-> IF page.status = "ok" THEN "rows" ELSE "returned",
                             result |-> AbsentResult]
            IN ad' = [pc |-> out.pc, source |-> source, page |-> page, p |-> 1,
                      result |-> out.result]
    /\ UNCHANGED <<storeVars, reconVars>>

\* one pass of the rows loop
AdRow ==
    /\ ad.pc = "rows"
    /\ ad.p <= Len(Take(ad.page.rows, HistoryCap))
    /\ LET kind == ad.page.rows[ad.p]
       IN IF kind = "bad"
          THEN ad' = [ad EXCEPT !.pc = OnException(ad.result).pc]
          ELSE ad' = [ad EXCEPT !.result = RowStep(ad.source, @, ad.p, kind),
                                !.p = @ + 1]
    /\ UNCHANGED <<storeVars, reconVars>>

\* the rows are exhausted: return result
AdReturn ==
    /\ ad.pc = "rows"
    /\ ad.p > Len(Take(ad.page.rows, HistoryCap))
    /\ ad' = [ad EXCEPT !.pc = "returned"]
    /\ UNCHANGED <<storeVars, reconVars>>

\* the caller takes the result
AdTaken ==
    /\ ad.pc = "returned"
    /\ ad' = NoAdapterCall
    /\ UNCHANGED <<storeVars, reconVars>>

AdapterNext == AdFetch \/ AdRow \/ AdReturn \/ AdTaken

SpecAdapter == Init /\ [][AdapterNext]_vars

\* ------------------------------------------------------ store: inputs
Amounts == {AmtStr(10), AmtStr(8)}

\* the dates a single upsert may carry: either side of the new year
SingleWeeks == {47, 48}

\* One instrument's rows of etf_dividend_history_raw.csv as read_csv returns
\* them: the HistoryCap distributions from week s on, most recent first.
Batch(s) ==
    [i \in 1..HistoryCap |->
        [amount |-> AmtStr(10),
         ex_date |-> WeekDate(s + HistoryCap - i),
         pay_date |-> PayDate(s + HistoryCap - i)]]

Undated(s) == Cardinality({i \in 1..Len(s) : s[i].ex_date.t = "nan"})

\* ------------------------------------------------------ store: actions
\* add_dividend_record called with a dated row
Upsert ==
    \E ticker \in Tickers, amount \in Amounts, k \in SingleWeeks :
        LET r == AddDividendRecord(db, ticker, amount, WeekDate(k), PayDate(k))
        IN /\ db' = r.db
           /\ last' = CallRecord(ticker, amount, WeekDate(k), PayDate(k), r, "upsert")
           /\ UNCHANGED <<runs, file, read, wr, reconVars, ad>>

\* add_dividend_record called with a row whose ex_date cell was empty or
\* 'N/A' in the CSV, which read_csv returns as float('nan')
UpsertUndated ==
    \E ticker \in Tickers, amount \in {AmtStr(10), AmtNaN} :
        /\ Undated(Series(db, ticker)) < MaxUndated
        /\ LET r == AddDividendRecord(db, ticker, amount, NaN, NaN)
           IN /\ db' = r.db
              /\ last' = CallRecord(ticker, amount, NaN, NaN, r, "upsert")
        /\ UNCHANGED <<runs, file, read, wr, reconVars, ad>>

RECURSIVE ImportRows(_, _, _)
ImportRows(d, ticker, rows) ==
    IF rows = <<>> THEN [db |-> d, ret |-> 0, raised |-> FALSE, cut |-> 0]
    ELSE LET r == AddDividendRecord(d, ticker, Head(rows).amount,
                                    Head(rows).ex_date, Head(rows).pay_date)
         IN IF r.raised \/ Len(rows) = 1 THEN r
            ELSE LET rest == ImportRows(r.db, ticker, Tail(rows))
                 IN [rest EXCEPT !.cut = @ + r.cut]

\* main: every row of the raw history file goes through add_dividend_record;
\* an exception ends the loop with the rows before it saved.  The file of
\* the n-th run holds the HistoryCap distributions up to that run.
ImportRawHistory ==
    /\ runs < NumBatches
    /\ LET rows == Batch(HistoryCap * runs)
           r == ImportRows(db, "YBTC", rows)
       IN /\ db' = r.db
          /\ last' = CallRecord("YBTC", rows[HistoryCap].amount,
                                rows[HistoryCap].ex_date,
                                rows[HistoryCap].pay_date, r, "import")
    /\ runs' = runs + 1
    /\ UNCHANGED <<file, read, wr, reconVars, ad>>

StoreNext == Upsert \/ UpsertUndated \/ ImportRawHistory

SpecStore == Init /\ [][StoreNext]_vars

\* ------------------------------------- amounts, lost files and statistics
\* What a caller may pass as amount: two amounts in dollars, a text that is
\* no number, None, and the float('nan') of an empty cell.
AnyAmounts == {AmtStr(10), AmtStr(8), AmtStr(-1), AmtNone, AmtNaN}

\* add_dividend_record for the instrument's next distribution, with any
\* amount; load_db falls back to the empty database, save_db writes the file
RecordAmount ==
    \E amount \in AnyAmounts :
        LET d == LoadDb(file, db)
            k == Len(Series(d, "YBTC"))
            r == AddDividendRecord(d, "YBTC", amount, WeekDate(k), PayDate(k))
        IN /\ k < MaxSeries
           /\ db' = IF r.raised THEN db ELSE r.db
           /\ file' = IF r.raised THEN file ELSE "ok"
           /\ last' = CallRecord("YBTC", amount, WeekDate(k), PayDate(k), r, "record")
           /\ read' = NoRead
           /\ UNCHANGED <<runs, wr, reconVars, ad>>

\* the file is deleted, or its content is no JSON text any more
FileLost ==
    /\ file = "ok"
    /\ file' \in {"missing", "corrupt"}
    /\ read' = NoRead
    /\ UNCHANGED <<db, last, runs, wr, reconVars, ad>>

\* get_ticker_history(ticker)
ReadTickerHistory ==
    \E ticker \in Tickers :
        /\ read' = [op |-> "get_ticker_history", ticker |-> ticker, seen |-> file,
                    history |-> GetTickerHistory(LoadDb(file, db), ticker, DefaultLimit),
                    stats |-> NoStats, etfs |-> EmptyDb.etfs]
        /\ UNCHANGED <<db, last, runs, file, wr, reconVars, ad>>

\* get_statistics(ticker)
ReadStatistics ==
    \E ticker \in Tickers :
        /\ read' = [op |-> "get_statistics", ticker |-> ticker, seen |-> file,
                    history |-> GetTickerHistory(LoadDb(file, db), ticker, RetentionWindow),
                    stats |-> GetStatistics(LoadDb(file, db), ticker),
                    etfs |-> EmptyDb.etfs]
        /\ UNCHANGED <<db, last, runs, file, wr, reconVars, ad>>

\* get_all_history()
ReadAllHistory ==
    /\ read' = [op |-> "get_all_history", ticker |-> "", seen |-> file,
                history |-> <<>>, stats |-> NoStats,
                etfs |-> GetAllHistory(LoadDb(file, db))]
    /\ UNCHANGED <<db, last, runs, file, wr, reconVars, ad>>

StatsNext ==
    RecordAmount \/ FileLost \/ ReadTickerHistory \/ ReadStatistics \/ ReadAllHistory

SpecStats == Init /\ [][StatsNext]_vars

\* ------------------------------------------------ the import from the CSV
\* etf['name'] and etf['frequency'] of self.etfs
Name(ticker) ==
    IF ticker = "YBTC" THEN "Roundhill Bitcoin Covered Call Strategy ETF"
    ELSE "Neos Bitcoin Covered Call ETF"

Frequency(ticker) == IF ticker = "YBTC" THEN "Weekly" ELSE "Monthly"

\* What pd.read_csv returns for a cell that to_csv wrote: 'N/A' and the
\* empty text are among its default NA markers and come back as
\* float('nan'); any other text comes back as it was written.
CsvDate(v) == IF v.t \in {"na", "empty", "none", "nan"} THEN NaN ELSE v

CsvAmount(v) == IF v.t \in {"na", "none", "nan"} THEN AmtNaN ELSE v

\* a row of df.iterrows() for a row of results
CsvRow(row) ==
    [ticker |-> row.ticker, name |-> Name(row.ticker),
     frequency |-> Frequency(row.ticker),
     amount |-> CsvAmount(row.amount), ex_date |-> CsvDate(row.ex_date),
     pay_date |-> CsvDate(row.pay_date)]

\* row['amount'] != 'N/A' and row['ex_date'] != 'N/A'
RowValid(row) == row.amount # AmtNA /\ row.ex_date # NAStr

\* "Update ETF metadata" on the copy update_from_csv loaded
SetMetadata(d, row) ==
    [etfs |-> [x \in DOMAIN d.etfs \cup {row.ticker} |->
        IF x = row.ticker
        THEN [name |-> row.name, frequency |-> row.frequency,
              dividends |-> Series(d, x)]
        ELSE d.etfs[x]]]

\* The loop of update_from_csv from row i on.  local is the copy loaded at
\* the start of the pass, which receives the metadata and is not saved;
\* d is the file, which add_dividend_record loads and saves on its own.
\* An exception of add_dividend_record ends the pass.
RECURSIVE UpdateRows(_, _, _, _)
UpdateRows(d, local, rows, i) ==
    IF i > Len(rows) THEN [db |-> d, local |-> local, raised |-> FALSE]
    ELSE LET row == CsvRow(rows[i])
             loc == SetMetadata(local, row)
         IN IF RowValid(row)
            THEN LET r == AddDividendRecord(d, row.ticker, row.amount,
                                            row.ex_date, row.pay_date)
                 IN IF r.raised THEN [db |-> d, local |-> loc, raised |-> TRUE]
                    ELSE UpdateRows(r.db, loc, rows, i + 1)
            ELSE UpdateRows(d, loc, rows, i + 1)

\* What get_dividend_data may have returned for an instrument: nothing, an
\* amount without an ex-date, or the distribution of one of two weeks.
ScrapedResults ==
    {AbsentResult,
     [amount |-> AmtStr(10), ex_date |-> None, pay_date |-> None, historical |-> <<>>]}
    \cup {[amount |-> AmtStr(10), ex_date |-> WeekDate(k), pay_date |-> PayDate(k),
           historical |-> <<>>] : k \in SingleWeeks}

\* a run of the scraper: scrape_all over self.etfs, then save_to_csv
RunScraper ==
    /\ \E data \in [1..Len(Etfs) -> ScrapedResults] :
        results' = [i \in 1..Len(Etfs) |-> ResultRow(Etfs[i], data[i])]
    /\ rpc' = "done"
    /\ etf' = Len(Etfs) + 1
    /\ UNCHANGED <<src, result, returned, all_historical, attempts, storeVars, ad>>

\* update_from_csv over the CSV the last run wrote
UpdateFromCsv ==
    /\ rpc = "done"
    /\ runs < MaxPasses
    /\ LET d == LoadDb(file, db)
           r == UpdateRows(d, d, results, 1)
       IN /\ db' = r.db
          /\ last' = [NoCall EXCEPT !.via = "csv", !.raised = r.raised]
    /\ runs' = runs + 1
    /\ UNCHANGED <<file, read, wr, reconVars, ad>>

ImportNext == RunScraper \/ UpdateFromCsv

SpecImport == Init /\ [][ImportNext]_vars

\* ------------------------------------------------- a full ingestion pass
\* main, lines 283-291: every row of etf_dividend_history_raw.csv, which
\* save_historical_data wrote from all_historical and read_csv reads back,
\* goes through add_dividend_record; an exception ends the loop
RECURSIVE ImportHistory(_, _, _)
ImportHistory(d, rows, i) ==
    IF i > Len(rows) THEN [db |-> d, raised |-> FALSE]
    ELSE LET r == AddDividendRecord(d, rows[i].ticker, CsvAmount(rows[i].amount),
                                    CsvDate(rows[i].ex_date),
                                    CsvDate(rows[i].pay_date))
         IN IF r.raised THEN [db |-> d, raised |-> TRUE]
            ELSE ImportHistory(r.db, rows, i + 1)

\* main after scrape_all and save_to_csv: the import of the raw history
\* file, if scrape_all wrote one, then update_from_csv; an exception of
\* either is caught at line 295 and skips what is left
MainStore ==
    /\ rpc = "done"
    /\ LET d == LoadDb(file, db)
           imp == ImportHistory(d, all_historical, 1)
           upd == IF imp.raised THEN imp
                  ELSE UpdateRows(imp.db, imp.db, results, 1)
       IN /\ db' = upd.db
          /\ last' = [NoCall EXCEPT !.via = "main", !.raised = upd.raised]
    /\ rpc' = "exit"
    /\ UNCHANGED <<runs, file, read, wr, etf, src, result, returned, results,
                   all_historical, attempts, ad>>

PipelineNext == ReconNext \/ MainStore

SpecPipeline == Init /\ [][PipelineNext]_vars

\* --------------------------------------------------- concurrent callers
\* add_dividend_record up to and including db = self.load_db()
WriterLoad(w) ==
    /\ wr[w].pc = "idle"
    /\ \E ticker \in Tickers, amount \in Amounts, k \in SingleWeeks :
        wr' = [wr EXCEPT ![w] = [pc |-> "loaded", ticker |-> ticker,
                                 amount |-> amount, k |-> k,
                                 loaded |-> LoadDb(file, db)]]
    /\ UNCHANGED <<db, last, runs, file, read, reconVars, ad>>

\* the rest of add_dividend_record: the change to the copy loaded,
\* self.save_db(db) and the return
WriterSave(w) ==
    /\ wr[w].pc = "loaded"
    /\ LET c == wr[w]
           r == AddDividendRecord(c.loaded, c.ticker, c.amount,
                                  WeekDate(c.k), PayDate(c.k))
       IN /\ db' = r.db
          /\ last' = CallRecord(c.ticker, c.amount, WeekDate(c.k), PayDate(c.k),
                                r, "writer")
          /\ wr' = [wr EXCEPT ![w].pc = "done", ![w].loaded = EmptyDb]
    /\ UNCHANGED <<runs, file, read, reconVars, ad>>

WritersNext == \E w \in Writers : WriterLoad(w) \/ WriterSave(w)

SpecWriters == Init /\ [][WritersNext]_vars

\* ------------------------------------------------------ store: claims
Dated(s) == {i \in 1..Len(s) : s[i].ex_date.t = "text"}

\* C1: each instrument's stored series is sorted by ex-dividend date in
\* descending calendar order, the most recent distribution first.
C1_SortedByCalendarDesc ==
    \A ticker \in Tickers :
        LET s == Series(db, ticker)
        IN \A i, j \in Dated(s) :
            i < j => CalendarOrdinal(s[i].ex_date) >= CalendarOrdinal(s[j].ex_date)

\* C2: within one instrument's series no two records hold the same
\* ex-dividend date.
C2_UniqueExDate ==
    \A ticker \in Tickers :
        LET s == Series(db, ticker)
        IN \A i, j \in 1..Len(s) : i # j => s[i].ex_date # s[j].ex_date

\* C3: an upsert whose ex-date is already in the instrument's series, with
\* another amount, replaces the record: the series keeps its length and
\* every record of that ex-date holds the amount just written.
UpsertStep == last'.via = "upsert" /\ ~last'.raised

C3_ReplaceExisting ==
    [][UpsertStep =>
        LET old == Series(db, last'.ticker)
            new == Series(db', last'.ticker)
        IN (\E i \in 1..Len(old) :
                /\ old[i].ex_date = last'.ex_date
                /\ old[i].amount # ParseAmount(last'.amount))
           => /\ Len(new) = Len(old)
              /\ \A i \in 1..Len(new) :
                    new[i].ex_date = last'.ex_date
                    => new[i].amount = ParseAmount(last'.amount)]_vars

\* C4: upserting the record just upserted once more leaves the series as it
\* is: the same records in the same order.
C4_Idempotent ==
    last.via = "upsert" =>
        AddDividendRecord(db, last.ticker, last.amount,
                          last.ex_date, last.pay_date).db = db

\* C5: a stored series never holds more than 52 records, and the value
\* add_dividend_record returns, the length of the series it saved, lies
\* between 1 and 52.
C5_AtMostRetentionWindow ==
    /\ \A ticker \in Tickers : Len(Series(db, ticker)) <= 52
    /\ (last.via # "none" /\ ~last.raised) =>
        /\ last.ret \in 1..52
        /\ last.ret = Len(Series(db, last.ticker))

\* the [:52] slice has cut records off a series that is now full
C5_Witness ==
    /\ last.via # "none" /\ ~last.raised
    /\ last.cut > 0
    /\ Len(Series(db, last.ticker)) = 52

\* C21: add_dividend_record for instrument X leaves the entry of every
\* other instrument as it was, adds no instrument but X, leaves the name
\* and the frequency of an X that existed as they were, and changes
\* nothing when it raises.
C21_UpsertFrame ==
    [][LET X == last'.ticker
       IN /\ DOMAIN db.etfs \subseteq DOMAIN db'.etfs
          /\ DOMAIN db'.etfs \subseteq DOMAIN db.etfs \cup {X}
          /\ \A t \in DOMAIN db.etfs :
                /\ t # X => db'.etfs[t] = db.etfs[t]
                /\ db'.etfs[t].name = db.etfs[t].name
                /\ db'.etfs[t].frequency = db.etfs[t].frequency
          /\ last'.raised => db' = db]_vars

\* an upsert has just changed the series of BTCI while YBTC holds records
C21_Witness ==
    /\ last.via = "upsert" /\ ~last.raised
    /\ last.ticker = "BTCI"
    /\ Len(Series(db, "BTCI")) >= 2
    /\ Len(Series(db, "YBTC")) >= 2

\* the ex-dates, as texts, of the records of a series
DatesOf(s) == {s[i].ex_date : i \in Dated(s)}

\* the ex-dates a step hands to add_dividend_record: the one date of an
\* upsert, the dates of the raw history file of an import
InputDates ==
    IF last'.via = "upsert"
    THEN {last'.ex_date} \cap {WeekDate(k) : k \in SingleWeeks}
    ELSE {Batch(HistoryCap * runs)[i].ex_date : i \in 1..HistoryCap}

\* C20: when upserts cut a series to 52 records, every record retained has
\* an ex-dividend date later than or equal to that of every record
\* discarded; an upsert into a full series of a date older than every date
\* retained leaves the series as it is and returns 52.
C20_RetentionKeepsMostRecent ==
    [][(/\ ~last'.raised
        /\ last'.cut > 0
        /\ \/ last'.via = "upsert"
           \/ last'.via = "import" /\ runs' = runs + 1)
       => LET old == Series(db, last'.ticker)
              new == Series(db', last'.ticker)
              discarded == (DatesOf(old) \cup InputDates) \ DatesOf(new)
          IN /\ \A x \in DatesOf(new), y \in discarded :
                    CalendarOrdinal(x) >= CalendarOrdinal(y)
             /\ (/\ last'.via = "upsert"
                 /\ Len(old) = RetentionWindow
                 /\ \A x \in DatesOf(old) :
                        CalendarOrdinal(last'.ex_date) < CalendarOrdinal(x))
                => (new = old /\ last'.ret = RetentionWindow)]_vars

\* ------------------------------------------------- reconciler: claims
RECURSIVE FirstPresent(_, _, _)
FirstPresent(f, i, none) ==
    IF i > Len(returned) THEN none
    ELSE IF Truthy(f[i]) THEN f[i]
    ELSE FirstPresent(f, i + 1, none)

RECURSIVE FirstBatch(_)
FirstBatch(i) ==
    IF i > Len(returned) THEN <<>>
    ELSE IF Len(returned[i].historical) > 0 THEN returned[i].historical
    ELSE FirstBatch(i + 1)

\* C6: the merged amount, ex-date and pay-date are each the value of the
\* first source consulted that returned one, and a later source does not
\* overwrite a field that is set.
C6_FillIfAbsent ==
    /\ [](/\ result.amount =
                FirstPresent([i \in 1..Len(returned) |-> returned[i].amount], 1, AmtNone)
          /\ result.ex_date =
                FirstPresent([i \in 1..Len(returned) |-> returned[i].ex_date], 1, None)
          /\ result.pay_date =
                FirstPresent([i \in 1..Len(returned) |-> returned[i].pay_date], 1, None))
    /\ [][Len(returned') > Len(returned) =>
            /\ Truthy(result.amount) => result'.amount = result.amount
            /\ Truthy(result.ex_date) => result'.ex_date = result.ex_date
            /\ Truthy(result.pay_date) => result'.pay_date = result.pay_date]_vars

\* the first source returned an amount and no ex-date, the second another
\* amount and an ex-date: the merged amount is the first's, the ex-date the
\* second's
C6_Witness ==
    /\ Len(returned) = 2
    /\ Truthy(returned[1].amount) /\ ~Truthy(returned[1].ex_date)
    /\ Truthy(returned[2].amount) /\ returned[2].amount # returned[1].amount
    /\ Truthy(returned[2].ex_date) /\ Len(returned[2].historical) > 0
    /\ result.amount = returned[1].amount
    /\ result.ex_date = returned[2].ex_date

\* C7: the merged historical list is the first non-empty batch a source
\* returned; the batch of a later source is ignored.
C7_FirstHistoricalWins == result.historical = FirstBatch(1)

\* C8: once the merged result holds an amount, an ex-date and a historical
\* batch no further source is invoked, and get_dividend_data returns with an
\* incomplete result only after invoking every source.
C8_EarlyExit ==
    /\ []((rpc = "return" /\ ~Complete(result)) => Len(returned) = Len(Sources))
    /\ [][Complete(result) => Len(returned') <= Len(returned)]_vars

\* the first source completed the result and the second was not invoked
C8_Witness ==
    /\ rpc = "return"
    /\ Complete(result)
    /\ Len(returned) = 1

AllAbsent(res) ==
    /\ ~Truthy(res.amount) /\ ~Truthy(res.ex_date) /\ ~Truthy(res.pay_date)
    /\ res.historical = <<>>

AllSourcesAbsent ==
    /\ Len(returned) = Len(Sources)
    /\ \A i \in 1..Len(returned) : AllAbsent(returned[i])

\* C9: when every source returns fully absent data, get_dividend_data
\* returns None for amount, ex-date and pay-date with an empty historical
\* list, and the row scrape_all appends holds 'N/A' three times and the
\* status 'Partial/No data'.
C9_NoDataRow ==
    AllSourcesAbsent =>
        /\ result = AbsentResult
        /\ rpc \in {"idle", "done"} =>
            /\ Len(results) = etf - 1
            /\ results[etf - 1] =
                [ticker |-> Etfs[etf - 1], amount |-> AmtNA, ex_date |-> NAStr,
                 pay_date |-> NAStr, status |-> "Partial/No data"]

\* the row of an instrument for which no source had data has been appended
C9_Witness ==
    /\ AllSourcesAbsent
    /\ rpc = "idle"
    /\ Len(results) = 1

\* C23: the row appended for an instrument has status 'Success' exactly
\* when the merged amount and the merged ex-date are both present, whatever
\* the pay-date and the historical batch are, and 'Partial/No data'
\* otherwise; a field that is absent is written as 'N/A', a field that is
\* present as it is.
C23_StatusAndSentinels ==
    [][Len(results') > Len(results) =>
        LET row == results'[Len(results')]
        IN /\ row.status = "Success"
                <=> (Truthy(result.amount) /\ Truthy(result.ex_date))
           /\ row.status \in {"Success", "Partial/No data"}
           /\ row.amount = IF Truthy(result.amount) THEN result.amount ELSE AmtNA
           /\ row.ex_date = IF Truthy(result.ex_date) THEN result.ex_date ELSE NAStr
           /\ row.pay_date = IF Truthy(result.pay_date) THEN result.pay_date
                             ELSE NAStr]_vars

\* a row with an amount and no ex-date, after a row with both
C23_Witness ==
    /\ Len(results) = 2
    /\ results[1].status = "Success"
    /\ results[2].status = "Partial/No data"
    /\ results[2].amount # AmtNA
    /\ results[2].ex_date = NAStr

\* ---------------------------------------------------- adapter: claims
\* the call met a failure: no connection or timeout, a status other than
\* 200, an unparsable body, or a row that raised
Failed(a) ==
    \/ a.page.status \in {"neterr", "http", "parse"}
    \/ /\ a.page.status = "ok"
       /\ a.p <= Len(a.page.rows)
       /\ a.page.rows[a.p] = "bad"

\* rows read before position p that carried an amount
Extracted(a) == {i \in 1..(a.p - 1) : a.page.rows[i] \in {"full", "nodate"}}

\* C10 as stated: a failure at any point of a fetch yields an all-absent
\* PartialResult.
C10_FailureAllAbsent ==
    (ad.pc = "returned" /\ Failed(ad)) => AllAbsent(ad.result)

\* C10 amended: an adapter call never ends in an exception; a failure
\* leaves the rows extracted before it in the result, which is all-absent
\* when no row was extracted, and holds the latest triple exactly when the
\* first row was.
C10_FailureKeepsExtracted ==
    /\ ad.pc # "raised"
    /\ (ad.pc = "returned" /\ Failed(ad)) =>
        /\ Len(ad.result.historical) = Cardinality(Extracted(ad))
        /\ Extracted(ad) = {} => ad.result = AbsentResult
        /\ Truthy(ad.result.amount) <=> 1 \in Extracted(ad)

\* a nasdaq row raised after the first row had been extracted
C10_Witness ==
    /\ ad.pc = "returned"
    /\ ad.page.status = "ok"
    /\ ad.p = 2
    /\ Len(ad.page.rows) = 2
    /\ ad.page.rows[1] = "full"
    /\ ad.page.rows[2] = "bad"
    /\ Len(ad.result.historical) = 1

\* ---------------------------------------------- concurrent callers: claims
\* the record of writer w's call is in the persisted series
Persisted(w) ==
    \E i \in 1..Len(Series(db, wr[w].ticker)) :
        Series(db, wr[w].ticker)[i].ex_date = WeekDate(wr[w].k)

\* C11: in every interleaving of two concurrent add_dividend_record calls,
\* once both calls have returned the persisted database holds the record of
\* each: no call saves over what the other saved since it loaded.
C11_NoLostUpdate ==
    (\A w \in Writers : wr[w].pc = "done") => \A w \in Writers : Persisted(w)

\* ---------------------------------------------------- the import: claims
\* C12: after a pass of update_from_csv has completed, the persisted entry
\* of every instrument of the batch holds the display name and the
\* frequency the batch gave for it.
C12_MetadataPersisted ==
    (last.via = "csv" /\ ~last.raised) =>
        \A i \in 1..Len(results) :
            LET ticker == results[i].ticker
            IN /\ ticker \in DOMAIN db.etfs
               /\ db.etfs[ticker].name = Name(ticker)
               /\ db.etfs[ticker].frequency = Frequency(ticker)

\* C19: a pass of update_from_csv inserts no record for a row whose amount
\* or ex-date scrape_all wrote as 'N/A': the series of that instrument is
\* after the pass what it was before.
C19_NoRecordForNA ==
    [][runs' # runs =>
        \A i \in 1..Len(results) :
            (results[i].amount = AmtNA \/ results[i].ex_date = NAStr)
            => Series(db', results[i].ticker) = Series(db, results[i].ticker)]_vars

\* ------------------------------- amounts, lost files, statistics: claims
\* an amount that is no number: a text that does not parse, the 'N/A'
\* text, None, or the float('nan') of an absent cell
Unparsable(a) == (a.t = "str" /\ a.cents < 0) \/ a.t \in {"na", "none", "nan"}

\* C13: add_dividend_record called with an amount that cannot be parsed as
\* a number completes normally and stores the record with amount 0.
C13_MalformedAmountIsZero ==
    (last.via = "record" /\ Unparsable(last.amount) /\ file = "ok") =>
        /\ ~last.raised
        /\ \E i \in 1..Len(Series(db, last.ticker)) :
            /\ Series(db, last.ticker)[i].ex_date = last.ex_date
            /\ Series(db, last.ticker)[i].amount = Float(0)

\* C14: while the persisted file is missing or corrupt, load_db yields the
\* database without instruments; a read then returns the empty history, no
\* statistics, no instruments; an upsert leaves the file lost only when its
\* amount is one that raises on a sound file too, and otherwise succeeds
\* and leaves a sound file that holds the one record.
C14_LostFileIsEmptyDb ==
    /\ [](/\ file # "ok" => LoadDb(file, db) = EmptyDb
          /\ (read.op # "none" /\ read.seen # "ok") =>
                /\ read.history = <<>>
                /\ read.stats = NoStats
                /\ read.etfs = EmptyDb.etfs)
    /\ [][(file # "ok" /\ last'.via = "record" /\ read' = NoRead /\ file' = file
             => ParseRaises(last'.amount))
          /\ (file # "ok" /\ file' = "ok") =>
                /\ ~last'.raised
                /\ last'.ret = 1
                /\ DOMAIN db'.etfs = {last'.ticker}
                /\ Len(Series(db', last'.ticker)) = 1]_vars

\* statistics were asked for after the file, which held records with
\* positive amounts, had been lost
C14_Witness ==
    /\ read.op = "get_statistics"
    /\ read.seen # "ok"
    /\ read.stats = NoStats
    /\ GetStatistics(db, read.ticker) # NoStats

\* the records of the history read whose amount is strictly positive
PositiveRecords == {i \in 1..Len(read.history) :
                      /\ read.history[i].amount.t = "float"
                      /\ read.history[i].amount.cents > 0}

\* C17: get_statistics returns None exactly when the series is empty, the
\* instrument unknown or no record has a strictly positive amount; a Stats
\* value counts the positive records only, the others staying in the series.
C17_StatsAbsentWithoutPositive ==
    read.op = "get_statistics" =>
        /\ read.history = Series(LoadDb(file, db), read.ticker)
        /\ read.stats.none <=> PositiveRecords = {}
        /\ ~read.stats.none =>
            /\ read.stats.count = Cardinality(PositiveRecords)
            /\ read.stats.min > 0

\* statistics of a series of several records, all with amount zero
C17_Witness ==
    /\ read.op = "get_statistics"
    /\ Len(read.history) >= 2
    /\ \A i \in 1..Len(read.history) : read.history[i].amount = Float(0)
    /\ read.stats.none

\* the positive amounts of the history read, in cents, most recent first
ReadAmounts ==
    LET kept == SelectSeq(read.history,
                          LAMBDA d : d.amount.t = "float" /\ d.amount.cents > 0)
    IN [i \in 1..Len(kept) |-> kept[i].amount.cents]

\* 100 * (recent - older) / older against 5, recent the mean of the first
\* three amounts and older the mean of the 4th to 6th, cleared of fractions
ChangeTimesDen(a) ==
    LET m == IF Len(a) < 6 THEN Len(a) - 3 ELSE 3
    IN 100 * (Sum(SubSeq(a, 1, 3)) * m - Sum(SubSeq(a, 4, 3 + m)) * 3)

FiveTimesDen(a) ==
    LET m == IF Len(a) < 6 THEN Len(a) - 3 ELSE 3
    IN 5 * Sum(SubSeq(a, 4, 3 + m)) * 3

\* C18: with four or more positive amounts the trend is 'increasing' when
\* the mean of the first three exceeds the mean of the 4th to 6th by more
\* than 5%, 'decreasing' when it falls short by more than 5%, else
\* 'stable'; with fewer than two amounts it is 'stable'; the amounts
\* 0.10, 0.10, 0.10, 0.08, 0.08, 0.08 are 'increasing'.
C18_TrendClassification ==
    (read.op = "get_statistics" /\ ~read.stats.none) =>
        LET a == ReadAmounts
        IN /\ Len(a) < 2 => read.stats.trend = "stable"
           /\ Len(a) >= 4 =>
                read.stats.trend =
                    IF ChangeTimesDen(a) > FiveTimesDen(a) THEN "increasing"
                    ELSE IF ChangeTimesDen(a) < -FiveTimesDen(a) THEN "decreasing"
                    ELSE "stable"
           /\ a = <<10, 10, 10, 8, 8, 8>> => read.stats.trend = "increasing"

\* the statistics of 0.10, 0.10, 0.10, 0.08, 0.08, 0.08
C18_Witness ==
    /\ read.op = "get_statistics"
    /\ ReadAmounts = <<10, 10, 10, 8, 8, 8>>
    /\ read.stats.trend = "increasing"

\* ------------------------------------ a source that raises: claims
\* C15: whatever the sources do -- no data, part of the data, an exception
\* -- the run is not aborted, the rows appended are those of the
\* instruments processed so far in configuration order, and scrape_all
\* ends with one row for every configured instrument.
C15_OneRowPerInstrument ==
    /\ [](/\ rpc # "aborted"
          /\ Len(results) = etf - 1
          /\ \A i \in 1..Len(results) : results[i].ticker = Etfs[i])
    /\ <>(rpc = "done" /\ Len(results) = Len(Etfs))

\* a source raised for the first instrument and the run ended with the
\* rows of both
C15_Witness ==
    /\ rpc = "done"
    /\ Len(results) = Len(Etfs)
    /\ \E i \in 1..Len(attempts) : attempts[i].ev = "raised" /\ attempts[i].etf = 1

\* C16: a source is invoked after another one for the same instrument only
\* after a politeness sleep, whether the previous source returned or raised.
C16_SleepBetweenAttempts ==
    \A i \in 2..Len(attempts) :
        (attempts[i].ev # "sleep" /\ attempts[i - 1].etf = attempts[i].etf)
        => attempts[i - 1].ev = "sleep"

\* C24: a series with two or three positive amounts has the trend
\* 'stable' whatever the amounts are; a trend other than 'stable' needs
\* four positive amounts or more.
C24_StableBelowFour ==
    (read.op = "get_statistics" /\ ~read.stats.none) =>
        /\ Len(ReadAmounts) \in {2, 3} => read.stats.trend = "stable"
        /\ read.stats.trend # "stable" => Len(ReadAmounts) >= 4

\* the statistics of three amounts, the latest above the two before it
C24_Witness ==
    /\ read.op = "get_statistics"
    /\ ReadAmounts = <<10, 8, 8>>
    /\ read.stats.trend = "stable"

\* ------------------------------------------- a full ingestion pass: claims
\* C22: after a full ingestion pass, for every instrument whose row has the
\* status 'Success', a stored record with the merged latest ex-date carries
\* the merged latest amount and the merged pay-date (as the CSV hands it
\* on), also when the historical batch held another amount for that date.
C22_LatestWinsOverHistorical ==
    rpc = "exit" =>
        \A i \in 1..Len(results) :
            (results[i].status = "Success" /\ results[i].ex_date.t = "text") =>
                LET series == Series(db, results[i].ticker)
                IN \A j \in 1..Len(series) :
                    series[j].ex_date = results[i].ex_date =>
                        /\ series[j].amount = ParseAmount(results[i].amount)
                        /\ series[j].pay_date = CsvDate(results[i].pay_date)

=============================================================================
